---- MODULE Spec2Model ----
(***************************************************************************)
(* A model of twitter-search-mwe.py: the Tweet, Query and Response         *)
(* classes, the response_cleaner and query_constructor callbacks and the   *)
(* __main__ script.  Python objects are records over the attributes that   *)
(* have been assigned; strings are TLA+ strings and `+` is \o.             *)
(*                                                                         *)
(* Two drivers run the same Query.run code:                                *)
(*   Spec         the __main__ script, one pass from the token load to the *)
(*                final print;                                             *)
(*   SessionSpec  a caller holding two Query instances on one client, that *)
(*                calls new and run on them in any order.                  *)
(***************************************************************************)
EXTENDS Integers, Sequences, FiniteSets, TLC

VARIABLES
    env,        \* os.environ: a function from the names that are set
    feed,       \* the raw results the search endpoint can return
    directory,  \* the profile endpoint: author id -> username
    pc,         \* position of the single thread of control
    error,      \* the exception that ended the last call ("" if none)
    tokens,     \* the five module-level token variables of __main__
    client,     \* the tweepy.Client of __main__ / of the session
    queries,    \* the Query instances: id -> attributes assigned so far
    frame,      \* the activation of Query.run or of print(query.response)
    calls,      \* API calls issued since the latest Query.run began
    output,     \* what print has written, one entry per print call
    built,      \* history: the stem list of each instance's latest new
    asked       \* history: the query string each stored response answers

vars == <<env, feed, directory, pc, error, tokens, client, queries, frame,
          calls, output, built, asked>>

-----------------------------------------------------------------------------
(* Bounds and the values the external services are drawn from.             *)

MaxBatch == 2

EnvNames == {"BEARER_TOKEN", "CONSUMER_SECRET", "CONSUMER_KEY",
             "ACCESS_TOKEN", "ACCESS_TOKEN_SECRET"}

\* The value each variable has when it is set; all five differ.
SecretOf == [n \in EnvNames |->
                CASE n = "BEARER_TOKEN" -> "bt"
                  [] n = "CONSUMER_SECRET" -> "cs"
                  [] n = "CONSUMER_KEY" -> "ck"
                  [] n = "ACCESS_TOKEN" -> "at"
                  [] n = "ACCESS_TOKEN_SECRET" -> "ats"]

Environments == {[n \in S |-> SecretOf[n]] : S \in SUBSET EnvNames}

QueryIds == {1, 2}
Authors == {7, 9}
Usernames == {"alice", "bob"}
TweetIds == {24, 42, 142}
Texts == {"hi", "yo"}
Times == {[hour |-> 9, minute |-> 5], [hour |-> 23, minute |-> 40]}

\* tweet.referenced_tweets is None or a list of referenced tweets.
PyNone == [is_none |-> TRUE, items |-> <<>>]
PyList(items) == [is_none |-> FALSE, items |-> items]
Reference == [id |-> 24, type |-> "replied_to"]
Contexts == {PyNone, PyList(<<>>), PyList(<<Reference>>)}

RawResults == [id : TweetIds, text : Texts, author_id : Authors,
               created_at : Times, referenced_tweets : Contexts]

Raw(id, text, author, time, refs) ==
    [id |-> id, text |-> text, author_id |-> author, created_at |-> time,
     referenced_tweets |-> refs]

\* A feed with a repeated author, two authors, all three kinds of context
\* and one id carried by two results.
Timeline == {Raw(42, "hi", 7, [hour |-> 9, minute |-> 5], PyNone),
             Raw(142, "yo", 7, [hour |-> 9, minute |-> 5], PyList(<<>>)),
             Raw(24, "yo", 9, [hour |-> 23, minute |-> 40],
                 PyList(<<Reference>>)),
             Raw(42, "yo", 9, [hour |-> 23, minute |-> 40], PyNone)}

SessionFeed == {Raw(42, "hi", 7, [hour |-> 9, minute |-> 5], PyNone),
                Raw(24, "yo", 9, [hour |-> 23, minute |-> 40],
                    PyList(<<Reference>>))}

Feeds == {Timeline} \cup {{r} : r \in RawResults}

\* A batch lists each matching result at most once.
Batches(S) ==
    {b \in UNION {[1..n -> S] : n \in 0..MaxBatch} :
        \A j, k \in DOMAIN b : b[j] = b[k] => j = k}

Unbound == <<>>
NoFrame == <<>>

-----------------------------------------------------------------------------
(* Python built-ins used by the program.                                   *)

Digit(d) == <<"0", "1", "2", "3", "4", "5", "6", "7", "8", "9">>[d + 1]

RECURSIVE IntStr(_)
IntStr(n) == IF n < 10 THEN Digit(n) ELSE IntStr(n \div 10) \o Digit(n % 10)

RECURSIVE Join(_, _)
Join(sep, list) ==
    IF list = <<>> THEN ""
    ELSE IF Len(list) = 1 THEN list[1]
    ELSE list[1] \o sep \o Join(sep, Tail(list))

Pad2(n) == IF n < 10 THEN "0" \o IntStr(n) ELSE IntStr(n)
DatetimeStr(t) == Pad2(t.hour) \o ":" \o Pad2(t.minute)

ReferenceRepr(r) ==
    "<ReferencedTweet id=" \o IntStr(r.id) \o " type=" \o r.type \o ">"

ContextStr(c) ==
    IF c.is_none THEN "None"
    ELSE "[" \o Join(", ", [k \in 1..Len(c.items) |-> ReferenceRepr(c.items[k])])
             \o "]"

Truthy(c) == ~c.is_none /\ Len(c.items) > 0

-----------------------------------------------------------------------------
(* class Tweet                                                             *)

\* Variant: user_id copied from the tweet's own id.
TweetInit_tweetId(tweet, user) ==
    [id |-> tweet.id,
     text |-> tweet.text,
     link |-> "https://www.twitter.com/user/status/" \o IntStr(tweet.id),
     user_id |-> tweet.id,
     user_resp |-> user,
     user_name |-> user.data.username,
     time |-> tweet.created_at,
     context |-> tweet.referenced_tweets]

\* Variant: the link built from the author's id.
TweetInit_authorLink(tweet, user) ==
    [id |-> tweet.id,
     text |-> tweet.text,
     link |-> "https://www.twitter.com/user/status/" \o IntStr(tweet.author_id),
     user_id |-> tweet.author_id,
     user_resp |-> user,
     user_name |-> user.data.username,
     time |-> tweet.created_at,
     context |-> tweet.referenced_tweets]

TweetInit(tweet, user) ==
    [id |-> tweet.id,
     text |-> tweet.text,
     link |-> "https://www.twitter.com/user/status/" \o IntStr(tweet.id),
     user_id |-> tweet.author_id,
     user_resp |-> user,
     user_name |-> user.data.username,
     time |-> tweet.created_at,
     context |-> tweet.referenced_tweets]

\* Variant: `if self.context is not None`.
TweetStr_notNone(self) ==
    LET string0 == ""
        string1 == IF ~self.context.is_none
                   THEN (string0 \o ContextStr(self.context)) \o "\n"
                   ELSE string0
        string2 == string1 \o self.user_name \o " at "
                           \o DatetimeStr(self.time) \o ":\t"
        string3 == string2 \o self.text \o "\n"
    IN  string3 \o "\t" \o self.link

TweetStr(self) ==
    LET string0 == ""
        string1 == IF Truthy(self.context)
                   THEN (string0 \o ContextStr(self.context)) \o "\n"
                   ELSE string0
        string2 == string1 \o self.user_name \o " at "
                           \o DatetimeStr(self.time) \o ":\t"
        string3 == string2 \o self.text \o "\n"
    IN  string3 \o "\t" \o self.link

-----------------------------------------------------------------------------
(* query_constructor                                                       *)

cons == <<"c", "d", "g", "j", "k", "l", "m", "n", "q", "r", "t", "v", "x",
          "y", "z">>

\* Variant: the terms joined in reverse stem order.
QueryConstructor_reversed(stems) ==
    "(" \o Join(" OR ", [k \in 1..Len(stems) |->
                            stems[Len(stems) + 1 - k] \o "ussy"])
        \o ") lang:en"

QueryConstructor(stems) ==
    "(" \o Join(" OR ", [k \in 1..Len(stems) |-> stems[k] \o "ussy"])
        \o ") lang:en"

query_constructor == QueryConstructor(cons)

\* The callbacks a caller hands to Query.new: each is a constructor of the
\* shape of query_constructor over its own stem list.
Constructors == {cons, <<"a", "b">>}

-----------------------------------------------------------------------------
(* The external client library.                                            *)

\* tweepy.Client(bearer_token, consumer_key, consumer_secret, access_token,
\*               access_token_secret), arguments by position.
Client(a1, a2, a3, a4, a5) ==
    [bearer_token |-> a1, consumer_key |-> a2, consumer_secret |-> a3,
     access_token |-> a4, access_token_secret |-> a5]

Call(op, query, id, ok, data, username) ==
    [op |-> op, query |-> query, id |-> id, ok |-> ok, data |-> data,
     username |-> username]

\* client.search_recent_tweets(query): raises, or returns a response whose
\* data is a batch of raw results.
SearchOutcomes ==
    {[ok |-> FALSE, data |-> <<>>]} \cup
    {[ok |-> TRUE, data |-> b] : b \in Batches(feed)}

\* client.get_user(id=a): raises, or returns a response whose data is the
\* profile of a.
GetUserOutcomes(a) ==
    {[ok |-> FALSE, data |-> [id |-> a, username |-> ""]],
     [ok |-> TRUE, data |-> [id |-> a, username |-> directory[a]]]}

-----------------------------------------------------------------------------
(* Python attribute assignment and exception propagation.                  *)

SetAttr(obj, name, value) == (name :> value) @@ obj

\* An exception leaves the active call: control goes where the caller of
\* the call sends an uncaught exception.
Raise(exc) ==
    /\ error' = exc
    /\ pc' = frame.handler
    /\ frame' = NoFrame

Activation(self, ret, handler) ==
    [self |-> self, ret |-> ret, handler |-> handler, data |-> <<>>,
     tweet_list |-> <<>>, k |-> 0]

-----------------------------------------------------------------------------
(* class Query, class Response, response_cleaner                           *)

\* Variant: __init__ also sets an empty query.
QueryInit_default(c) == [client |-> c, query |-> ""]

QueryInit(c) == [client |-> c]

QueryNew(self, stems) ==
    /\ queries' = [queries EXCEPT
                     ![self] = SetAttr(@, "query", QueryConstructor(stems))]
    /\ built' = [built EXCEPT ![self] = stems]

ResponseInit(c, tweets) == [client |-> c, tweets |-> tweets]

\* Query.run, first statement: self.query is read, then the search call is
\* made with it.
RunSearch ==
    /\ pc = "run_search"
    /\ IF "query" \notin DOMAIN queries[frame.self]
       THEN /\ Raise("AttributeError")
            /\ UNCHANGED calls
       ELSE \E r \in SearchOutcomes :
              /\ calls' = Append(calls, Call("search", queries[frame.self].query,
                                             0, r.ok, r.data, ""))
              /\ IF r.ok
                 THEN /\ frame' = [frame EXCEPT !.data = r.data]
                      /\ pc' = "clean"
                      /\ UNCHANGED error
                 ELSE Raise("APIError")
    /\ UNCHANGED <<env, feed, directory, tokens, client, queries, output,
                   built, asked>>

\* Variant: a profile already fetched for the same author is reused.
CleanerStep_cached ==
    /\ pc = "clean"
    /\ Len(frame.tweet_list) < Len(frame.data)
    /\ LET tweet == frame.data[Len(frame.tweet_list) + 1]
           seen == {k \in 1..Len(frame.tweet_list) :
                      frame.tweet_list[k].user_id = tweet.author_id}
       IN  IF seen # {}
           THEN /\ frame' = [frame EXCEPT !.tweet_list = Append(@,
                        TweetInit(tweet,
                            frame.tweet_list[CHOOSE k \in seen : TRUE].user_resp))]
                /\ UNCHANGED <<pc, error, calls>>
           ELSE \E r \in GetUserOutcomes(tweet.author_id) :
                  /\ calls' = Append(calls, Call("get_user", "", tweet.author_id,
                                                 r.ok, <<>>, r.data.username))
                  /\ IF r.ok
                     THEN /\ frame' = [frame EXCEPT !.tweet_list =
                                Append(@, TweetInit(tweet, [data |-> r.data]))]
                          /\ UNCHANGED <<pc, error>>
                     ELSE Raise("APIError")
    /\ UNCHANGED <<env, feed, directory, tokens, client, queries, output,
                   built, asked>>

\* Variant: a failed lookup is caught and its result dropped from the batch.
CleanerStep_skip ==
    /\ pc = "clean"
    /\ Len(frame.tweet_list) < Len(frame.data)
    /\ LET n == Len(frame.tweet_list) + 1
           tweet == frame.data[n]
       IN  \E r \in GetUserOutcomes(tweet.author_id) :
              /\ calls' = Append(calls, Call("get_user", "", tweet.author_id,
                                             r.ok, <<>>, r.data.username))
              /\ IF r.ok
                 THEN frame' = [frame EXCEPT !.tweet_list =
                            Append(@, TweetInit(tweet, [data |-> r.data]))]
                 ELSE frame' = [frame EXCEPT !.data =
                            SubSeq(@, 1, n - 1) \o SubSeq(@, n + 1, Len(@))]
              /\ UNCHANGED <<pc, error>>
    /\ UNCHANGED <<env, feed, directory, tokens, client, queries, output,
                   built, asked>>

\* response_cleaner, one pass of the loop body: the lookup of the next raw
\* result's author and the Tweet built from it.
CleanerStep ==
    /\ pc = "clean"
    /\ Len(frame.tweet_list) < Len(frame.data)
    /\ LET tweet == frame.data[Len(frame.tweet_list) + 1] IN
       \E r \in GetUserOutcomes(tweet.author_id) :
          /\ calls' = Append(calls, Call("get_user", "", tweet.author_id,
                                         r.ok, <<>>, r.data.username))
          /\ IF r.ok
             THEN /\ frame' = [frame EXCEPT
                        !.tweet_list = Append(@, TweetInit(tweet, [data |-> r.data]))]
                  /\ UNCHANGED <<pc, error>>
             ELSE Raise("APIError")
    /\ UNCHANGED <<env, feed, directory, tokens, client, queries, output,
                   built, asked>>

\* response_cleaner returns its list, Response.__init__ keeps it and
\* Query.run assigns the Response to self.response.
RunReturn ==
    /\ pc = "clean"
    /\ Len(frame.tweet_list) = Len(frame.data)
    /\ queries' = [queries EXCEPT ![frame.self] =
           SetAttr(@, "response",
                   ResponseInit(queries[frame.self].client, frame.tweet_list))]
    /\ asked' = [asked EXCEPT ![frame.self] = calls[1].query]
    /\ pc' = frame.ret
    /\ frame' = NoFrame
    /\ UNCHANGED <<env, feed, directory, error, tokens, client, calls, output,
                   built>>

-----------------------------------------------------------------------------
(* print(query.response): Response.__str__                                 *)

\* A Python value handed back to str(): None, or a string.
NoneValue == [is_str |-> FALSE, val |-> ""]
StrValue(s) == [is_str |-> TRUE, val |-> s]

\* The value Response.__str__ returns: the method has no return statement.
ResponseStrResult == NoneValue

PrintCall ==
    /\ pc = "print"
    /\ frame' = Activation(1, "done", "crashed")
    /\ IF "response" \in DOMAIN queries[1]
       THEN pc' = "str" /\ UNCHANGED error
       ELSE pc' = "crashed" /\ error' = "AttributeError"
    /\ UNCHANGED <<env, feed, directory, tokens, client, queries, calls,
                   output, built, asked>>

\* Response.__str__, one pass of the loop: print(tweet).
PrintTweet ==
    /\ pc = "str"
    /\ frame.k < Len(queries[frame.self].response.tweets)
    /\ output' = Append(output,
                        TweetStr(queries[frame.self].response.tweets[frame.k + 1]))
    /\ frame' = [frame EXCEPT !.k = @ + 1]
    /\ UNCHANGED <<env, feed, directory, pc, error, tokens, client, queries,
                   calls, built, asked>>

\* Response.__str__ returns; print requires a string of it.
StrReturn ==
    /\ pc = "str"
    /\ frame.k = Len(queries[frame.self].response.tweets)
    /\ IF ResponseStrResult.is_str
       THEN /\ output' = Append(output, ResponseStrResult.val)
            /\ pc' = frame.ret
            /\ frame' = NoFrame
            /\ UNCHANGED error
       ELSE /\ Raise("TypeError")
            /\ UNCHANGED output
    /\ UNCHANGED <<env, feed, directory, tokens, client, queries, calls,
                   built, asked>>

-----------------------------------------------------------------------------
(* __main__                                                                *)

\* Variant: environ.get, a missing name read as the string "None".
LoadTokens_default ==
    /\ pc = "load"
    /\ LET get(n) == IF n \in DOMAIN env THEN env[n] ELSE "None" IN
       tokens' = [bearer_token |-> get("BEARER_TOKEN"),
                  consumer_secret |-> get("CONSUMER_SECRET"),
                  consumer_key |-> get("CONSUMER_KEY"),
                  access_token |-> get("ACCESS_TOKEN"),
                  access_token_secret |-> get("ACCESS_TOKEN_SECRET")]
    /\ pc' = "start_client"
    /\ UNCHANGED <<env, feed, directory, error, client, queries, frame, calls,
                   output, built, asked>>

LoadTokens ==
    /\ pc = "load"
    /\ IF EnvNames \subseteq DOMAIN env
       THEN /\ tokens' = [bearer_token |-> env["BEARER_TOKEN"],
                          consumer_secret |-> env["CONSUMER_SECRET"],
                          consumer_key |-> env["CONSUMER_KEY"],
                          access_token |-> env["ACCESS_TOKEN"],
                          access_token_secret |-> env["ACCESS_TOKEN_SECRET"]]
            /\ pc' = "start_client"
            /\ UNCHANGED error
       ELSE /\ error' = "AttributeError"
            /\ pc' = "crashed"
            /\ UNCHANGED tokens
    /\ UNCHANGED <<env, feed, directory, client, queries, frame, calls,
                   output, built, asked>>

StartClient ==
    /\ pc = "start_client"
    /\ client' = Client(tokens.bearer_token, tokens.consumer_key,
                        tokens.consumer_secret, tokens.access_token,
                        tokens.access_token_secret)
    /\ pc' = "make_query"
    /\ UNCHANGED <<env, feed, directory, error, tokens, queries, frame, calls,
                   output, built, asked>>

MakeQuery ==
    /\ pc = "make_query"
    /\ queries' = (1 :> QueryInit(client))
    /\ pc' = "new"
    /\ UNCHANGED <<env, feed, directory, error, tokens, client, frame, calls,
                   output, built, asked>>

MainNew ==
    /\ pc = "new"
    /\ QueryNew(1, cons)
    /\ pc' = "run"
    /\ UNCHANGED <<env, feed, directory, error, tokens, client, frame, calls,
                   output, asked>>

MainRun ==
    /\ pc = "run"
    /\ frame' = Activation(1, "print", "crashed")
    /\ calls' = <<>>
    /\ error' = ""
    /\ pc' = "run_search"
    /\ UNCHANGED <<env, feed, directory, tokens, client, queries, output,
                   built, asked>>

Init ==
    /\ env \in Environments
    /\ feed \in Feeds
    /\ directory \in [Authors -> Usernames]
    /\ pc = "load"
    /\ error = ""
    /\ tokens = Unbound
    /\ client = Unbound
    /\ queries = <<>>
    /\ frame = NoFrame
    /\ calls = <<>>
    /\ output = <<>>
    /\ built = [i \in QueryIds |-> <<>>]
    /\ asked = [i \in QueryIds |-> ""]

Next ==
    \/ LoadTokens
    \/ StartClient
    \/ MakeQuery
    \/ MainNew
    \/ MainRun
    \/ RunSearch
    \/ CleanerStep
    \/ RunReturn
    \/ PrintCall
    \/ PrintTweet
    \/ StrReturn

Spec == Init /\ [][Next]_vars

-----------------------------------------------------------------------------
(* A caller with two Query instances on one client.                        *)

SessionNew(self, stems) ==
    /\ pc = "idle"
    /\ QueryNew(self, stems)
    /\ error' = ""
    /\ UNCHANGED <<env, feed, directory, pc, tokens, client, frame, calls,
                   output, asked>>

SessionRun(self) ==
    /\ pc = "idle"
    /\ frame' = Activation(self, "idle", "idle")
    /\ calls' = <<>>
    /\ error' = ""
    /\ pc' = "run_search"
    /\ UNCHANGED <<env, feed, directory, tokens, client, queries, output,
                   built, asked>>

SessionInit ==
    /\ env = [n \in EnvNames |-> SecretOf[n]]
    /\ feed = SessionFeed
    /\ directory = [a \in Authors |-> IF a = 7 THEN "bob" ELSE "alice"]
    /\ pc = "idle"
    /\ error = ""
    /\ tokens = Unbound
    /\ client = Client("bt", "ck", "cs", "at", "ats")
    /\ queries = [i \in QueryIds |-> QueryInit(client)]
    /\ frame = NoFrame
    /\ calls = <<>>
    /\ output = <<>>
    /\ built = [i \in QueryIds |-> <<>>]
    /\ asked = [i \in QueryIds |-> ""]

SessionNext ==
    \/ \E self \in QueryIds, stems \in Constructors : SessionNew(self, stems)
    \/ \E self \in QueryIds : SessionRun(self)
    \/ RunSearch
    \/ CleanerStep
    \/ RunReturn

SessionSpec == SessionInit /\ [][SessionNext]_vars

-----------------------------------------------------------------------------
(* Properties.                                                             *)

AllSet == EnvNames \subseteq DOMAIN env

RunPcs == {"run_search", "clean"}

Searches == SelectSeq(calls, LAMBDA c : c.op = "search")
Lookups == SelectSeq(calls, LAMBDA c : c.op = "get_user")

\* The batch the search of the latest run returned (empty if it failed or
\* has not been issued).
Returned == IF Searches # <<>> /\ Searches[1].ok THEN Searches[1].data ELSE <<>>

HasResponse(i) == i \in DOMAIN queries /\ "response" \in DOMAIN queries[i]
HasQuery(i) == i \in DOMAIN queries /\ "query" \in DOMAIN queries[i]

\* C1: with one of the five environment variables missing the script stops
\* at the token load with the configuration error: no client, no Query, no
\* API call and no output exist in that run.  With all five set the load
\* succeeds and the client receives each value under its own name.
C1_CredentialLoading ==
    /\ (~AllSet /\ pc # "load") =>
          /\ pc = "crashed"
          /\ error = "AttributeError"
          /\ client = Unbound
          /\ queries = <<>>
          /\ calls = <<>>
          /\ output = <<>>
    /\ (AllSet /\ pc # "load") =>
          /\ tokens.bearer_token = env["BEARER_TOKEN"]
          /\ tokens.consumer_secret = env["CONSUMER_SECRET"]
          /\ tokens.consumer_key = env["CONSUMER_KEY"]
          /\ tokens.access_token = env["ACCESS_TOKEN"]
          /\ tokens.access_token_secret = env["ACCESS_TOKEN_SECRET"]
          /\ error # "AttributeError"
    /\ client # Unbound =>
          /\ client.bearer_token = env["BEARER_TOKEN"]
          /\ client.consumer_secret = env["CONSUMER_SECRET"]
          /\ client.consumer_key = env["CONSUMER_KEY"]
          /\ client.access_token = env["ACCESS_TOKEN"]
          /\ client.access_token_secret = env["ACCESS_TOKEN_SECRET"]

C1_Witness ==
    /\ pc = "crashed"
    /\ error = "AttributeError"
    /\ DOMAIN env = EnvNames \ {"CONSUMER_KEY"}

\* C2: the k-th get_user call of a run carries the author_id of the k-th
\* raw result of the batch, there are never more calls than results, and a
\* run that stored its response made exactly one successful call per
\* result, repeated authors included.
C2_OneLookupPerResult ==
    /\ Len(Lookups) <= Len(Returned)
    /\ \A k \in 1..Len(Lookups) : Lookups[k].id = Returned[k].author_id
    /\ pc = "clean" =>
          /\ \A k \in 1..Len(Lookups) : Lookups[k].ok
          /\ Len(Lookups) = Len(frame.tweet_list)
    /\ HasResponse(1) =>
          /\ Len(Lookups) = Len(Returned)
          /\ \A k \in 1..Len(Lookups) : Lookups[k].ok

C2_Witness ==
    /\ HasResponse(1)
    /\ Len(Returned) = 2
    /\ Returned[1].author_id = Returned[2].author_id
    /\ Len(Lookups) = 2

\* C3: a run of the script with all five credentials set and no failing
\* API call ends normally: one search, then the N lookups, then the N posts
\* printed in batch order, and no error raised.
C3_LinearRun ==
    /\ output # <<>> => HasResponse(1)
    /\ (AllSet /\ pc \in {"done", "crashed"} /\ \A k \in 1..Len(calls) : calls[k].ok) =>
          /\ pc = "done"
          /\ error = ""
          /\ Len(Searches) = 1
          /\ calls[1].op = "search"
          /\ Len(Lookups) = Len(Returned)
          /\ output = [k \in 1..Len(Returned) |->
                          TweetStr(queries[1].response.tweets[k])]

\* C4: a failed API call is the last call of its run: the step that makes
\* it raises the API error to the caller of run, and leaves every Query
\* attribute and the output as they were; no step inside a run touches a
\* stored response before the run returns.
C4_FailurePropagates ==
    /\ [](\A k \in 1..Len(calls) :
            ~calls[k].ok => (k = Len(calls) /\ pc \notin RunPcs /\ frame = NoFrame))
    /\ [][(Len(calls') = Len(calls) + 1 /\ ~calls'[Len(calls')].ok) =>
             /\ error' = "APIError"
             /\ pc' = frame.handler
             /\ queries' = queries
             /\ asked' = asked
             /\ output' = output]_vars
    /\ [][(pc \in RunPcs /\ pc' \in RunPcs) =>
             (queries' = queries /\ output' = output)]_vars

C4_Witness ==
    /\ pc = "idle"
    /\ error = "APIError"
    /\ Len(calls) = 2
    /\ ~calls[2].ok
    /\ HasResponse(1)
    /\ Len(queries[1].response.tweets) = 2
    /\ ~HasQuery(2)

\* C5: the k-th Tweet of a stored response, and of the list being built,
\* has the id, text and author_id of the k-th raw result and the username
\* the k-th lookup returned for that author_id; a stored list of Tweets is
\* never changed.
C5_TweetFields ==
    /\ [](\A i \in DOMAIN queries : "response" \in DOMAIN queries[i] =>
            LET tw == queries[i].response.tweets IN
            /\ Len(tw) = Len(Returned)
            /\ \A k \in 1..Len(tw) :
                  /\ tw[k].user_id = Returned[k].author_id
                  /\ tw[k].id = Returned[k].id
                  /\ tw[k].text = Returned[k].text
                  /\ Lookups[k].id = Returned[k].author_id
                  /\ tw[k].user_name = Lookups[k].username
                  /\ tw[k].user_name = directory[Returned[k].author_id])
    /\ [](pc = "clean" =>
            \A k \in 1..Len(frame.tweet_list) :
                  /\ frame.tweet_list[k].user_id = Returned[k].author_id
                  /\ frame.tweet_list[k].id = Returned[k].id
                  /\ frame.tweet_list[k].text = Returned[k].text
                  /\ frame.tweet_list[k].user_name = Lookups[k].username)
    /\ [][\A i \in DOMAIN queries : "response" \in DOMAIN queries[i] =>
             queries'[i].response.tweets = queries[i].response.tweets]_vars

C5_Witness ==
    /\ HasResponse(1)
    /\ Len(queries[1].response.tweets) = 2
    /\ Returned[1].author_id # Returned[2].author_id
    /\ Returned[1].id # Returned[1].author_id
    /\ directory[7] # directory[9]

\* C6: an instance that holds a response holds the query string whose
\* search that response answers.
C6_ResponseMatchesQuery ==
    \A i \in QueryIds :
        HasResponse(i) => (HasQuery(i) /\ asked[i] = queries[i].query)

\* The text the formatter is to produce for a raw result and a username.
Rendering(raw, username) ==
    (IF raw.referenced_tweets.items # <<>>
     THEN ContextStr(raw.referenced_tweets) \o "\n"
     ELSE "")
    \o username \o " at " \o DatetimeStr(raw.created_at) \o ":\t" \o raw.text
    \o "\n\thttps://www.twitter.com/user/status/" \o IntStr(raw.id)

\* C7: the k-th printed text is the rendering of the k-th raw result: a
\* context line exactly when the referenced list is non-empty, then
\* `username at time:<tab>text`, a newline, a tab and the permalink.
C7_Rendering ==
    \A k \in 1..Len(output) :
        LET raw == Returned[k] IN
        /\ output[k] = Rendering(raw, directory[raw.author_id])
        /\ (raw = Raw(42, "hi", 7, [hour |-> 9, minute |-> 5], PyNone)
              /\ directory[7] = "bob") =>
             output[k] = "bob at 09:05:\thi\n\thttps://www.twitter.com/user/status/42"
        /\ (raw = Raw(142, "yo", 7, [hour |-> 9, minute |-> 5], PyList(<<>>))
              /\ directory[7] = "alice") =>
             output[k] = "alice at 09:05:\tyo\n\thttps://www.twitter.com/user/status/142"
        /\ (raw = Raw(24, "yo", 9, [hour |-> 23, minute |-> 40], PyList(<<Reference>>))
              /\ directory[9] = "alice") =>
             output[k] = "[<ReferencedTweet id=24 type=replied_to>]\nalice at 23:40:\tyo\n\thttps://www.twitter.com/user/status/24"

C7_Witness ==
    /\ Len(output) = 2
    /\ output[1] = "bob at 09:05:\thi\n\thttps://www.twitter.com/user/status/42"
    /\ Returned[2].referenced_tweets = PyList(<<>>)

\* The query string expected of a constructor over a stem list.
Golden(stems) ==
    IF stems = <<"a", "b">>
    THEN "(aussy OR bussy) lang:en"
    ELSE "(cussy OR dussy OR gussy OR jussy OR kussy OR lussy OR mussy OR nussy OR qussy OR russy OR tussy OR vussy OR xussy OR yussy OR zussy) lang:en"

\* C8: the query an instance holds is the string of its latest constructor:
\* one `<stem>ussy` term per stem, in stem-list order, joined by ` OR `,
\* in parentheses and followed by ` lang:en`; two instances built from the
\* same stem list hold the same string.
C8_QueryString ==
    /\ \A i \in QueryIds :
          /\ HasQuery(i) <=> built[i] # <<>>
          /\ HasQuery(i) => queries[i].query = Golden(built[i])
    /\ \A i, j \in QueryIds :
          (HasQuery(i) /\ HasQuery(j) /\ built[i] = built[j]) =>
              queries[i].query = queries[j].query

C8_Witness ==
    /\ HasQuery(1)
    /\ HasQuery(2)
    /\ queries[1].query = "(aussy OR bussy) lang:en"
    /\ built[2] = cons

\* C9: within a response, two posts built from raw results with different
\* ids have different links, and two built from the same id the same link.
C9_PermalinkInjective ==
    \A i \in DOMAIN queries : "response" \in DOMAIN queries[i] =>
        LET tw == queries[i].response.tweets IN
        \A j, k \in 1..Len(tw) :
            (Returned[j].id = Returned[k].id) <=> (tw[j].link = tw[k].link)

C9_Witness ==
    /\ HasResponse(1)
    /\ Len(Returned) = 2
    /\ Returned[1].id = 42
    /\ Returned[2].id = 142
    /\ Returned[1].author_id = Returned[2].author_id

\* C10: run on an instance on which new was never called raises before any
\* API call and changes no attribute; such an instance never holds a
\* response; every search is issued by an instance whose query was set by
\* new, with that query.
C10_RunRequiresNew ==
    /\ [][(pc = "run_search" /\ built[frame.self] = <<>>) =>
             /\ error' = "AttributeError"
             /\ pc' = frame.handler
             /\ calls = <<>>
             /\ calls' = <<>>
             /\ queries' = queries]_vars
    /\ [](\A i \in QueryIds : built[i] = <<>> => ~HasResponse(i))
    /\ [][(Len(calls') > Len(calls) /\ calls'[Len(calls')].op = "search") =>
             /\ built[frame.self] # <<>>
             /\ calls'[Len(calls')].query = Golden(built[frame.self])]_vars

C10_Witness ==
    /\ pc = "idle"
    /\ error = "AttributeError"
    /\ calls = <<>>
    /\ built[2] # <<>>

====
